---- MODULE Spec2Model ----
(***************************************************************************)
(* Credit metering of a messaging product: the Calculator (a chain of      *)
(* seven handlers with a report-cost override, src/utils/calculator.py)    *)
(* and the UsageService aggregation (src/services/usage.py), which fetches *)
(* the period's messages, resolves the referenced reports concurrently     *)
(* with asyncio.gather and builds one usage entry per message.             *)
(*                                                                         *)
(* Credits are Decimals in the source.  Here a credit amount is an integer *)
(* number of thousandths of a credit (1.00 credit = 1000), so that the     *)
(* quantize(Decimal("0.01"), ROUND_HALF_UP) calls of the source are real   *)
(* roundings.  A text is a sequence of one-character strings.              *)
(***************************************************************************)
EXTENDS Integers, Sequences, FiniteSets, TLC

VARIABLES
    pc,          \* position of get_current_period_usage
    messages,    \* the list returned by client.messages.get_current_period()
    store,       \* the Report Source: report id -> Report, or None (404)
    tasks,       \* the fetch_report coroutines handed to asyncio.gather
    outer,       \* the future asyncio.gather returned: None while pending
    report_map,  \* the dict returned by fetch_reports
    usage,       \* UsageResponse.usage
    raised,      \* the exception get_current_period_usage raised, or None
    calls,       \* per report id, the number of client.reports.get calls
    calc_calls,  \* number of Calculator.calculate calls of the run
    source_error,\* what Messages.get_current_period raised, or None
    response,    \* how the route get_usage ended, or None while it runs
    chain,       \* the Calculator's handlers: handler -> its _next_handler
    text,        \* the text of the message given to calculate or to a rule
    report,      \* the report given to calculate, or None
    result,      \* what the last call returned, or None before any call
    returned,    \* PureSpec: per input, the credits its calls returned
    rule,        \* RuleSpec: the handler whose process is called
    credits_in   \* RuleSpec: the running total handed to that handler

vars == <<pc, messages, store, tasks, outer, report_map, usage, raised, calls,
          calc_calls, source_error, response, chain, text, report, result,
          returned, rule, credits_in>>

\* Optional values (int | None, Report | None, str | None): None is the empty
\* sequence and a present value v is <<v>>.
None == <<>>

Some(v) == <<v>>

Get(o) == o[1]

-----------------------------------------------------------------------------
(* Bounds of the model *)

MaxMessages == 2
MaxLen == 3
MaxCalls == 2

-----------------------------------------------------------------------------
(* Characters: str.isalpha, str.isalnum, str.lower, str.split on the ASCII  *)
(* characters the model draws texts from.                                   *)

LowerLetters ==
    <<"a","b","c","d","e","f","g","h","i","j","k","l","m",
      "n","o","p","q","r","s","t","u","v","w","x","y","z">>

UpperLetters ==
    <<"A","B","C","D","E","F","G","H","I","J","K","L","M",
      "N","O","P","Q","R","S","T","U","V","W","X","Y","Z">>

Digits == {"0","1","2","3","4","5","6","7","8","9"}

Whitespace == {" ", "\t", "\n"}

Range(s) == {s[i] : i \in DOMAIN s}

isalpha(c) == c \in Range(LowerLetters) \cup Range(UpperLetters)

isalnum(c) == isalpha(c) \/ c \in Digits

isspace(c) == c \in Whitespace

lower(c) ==
    IF c \in Range(UpperLetters)
    THEN LowerLetters[CHOOSE i \in DOMAIN UpperLetters : UpperLetters[i] = c]
    ELSE c

\* str.split(): the maximal runs of non-whitespace characters, in order.
RECURSIVE split(_)
split(s) ==
    IF s = <<>> THEN <<>>
    ELSE IF isspace(Head(s)) THEN split(Tail(s))
    ELSE LET stops == {i \in DOMAIN s : isspace(s[i])}
             n == IF stops = {} THEN Len(s) + 1
                  ELSE CHOOSE i \in stops : \A j \in stops : i <= j
         IN  <<SubSeq(s, 1, n - 1)>> \o split(SubSeq(s, n, Len(s)))

words_unfiltered(s) == split(s)

\* [word for word in text.split() if any(character.isalpha() ...)]
words(s) == SelectSeq(split(s), LAMBDA w : \E i \in DOMAIN w : isalpha(w[i]))

-----------------------------------------------------------------------------
(* Decimal arithmetic, in thousandths of a credit *)

Abs(x) == IF x < 0 THEN -x ELSE x

\* Decimal.quantize(Decimal("0.01"), rounding=ROUND_HALF_UP): to the nearest
\* hundredth, a tie going away from zero.
quantize(x) ==
    LET q == ((Abs(x) + 5) \div 10) * 10
    IN  IF x < 0 THEN -q ELSE q

max(a, b) == IF a >= b THEN a ELSE b

-----------------------------------------------------------------------------
(* The handlers: each process(message.text, credits) *)

BASE_COST == 1000
CHARACTER_CREDIT == 50
SHORT_WORD_LENGTH == 3
MEDIUM_WORD_LENGTH == 7
SHORT_WORD_CREDIT == 100
MEDIUM_WORD_CREDIT == 200
LONG_WORD_CREDIT == 300
VOWEL_CREDIT == 300
VOWELS == {"a","e","i","o","u","A","E","I","O","U"}
MAX_LENGTH_WITHOUT_PENALTY == 100
LENGTH_PENALTY == 5000
UNIQUE_WORD_DISCOUNT == 2000
MINIMUM_CREDITS == 1000
PALINDROME_MULTIPLIER == 2

BaseCostHandlerNothingAdded(t, credits) == credits

BaseCostHandler(t, credits) == credits + BASE_COST

CharacterCountHandlerTenth(t, credits) ==
    credits + (CHARACTER_CREDIT \div 10) * Len(t)

CharacterCountHandler(t, credits) == credits + CHARACTER_CREDIT * Len(t)

WordCreditStrict(word) ==
    IF Len(word) < SHORT_WORD_LENGTH THEN SHORT_WORD_CREDIT
    ELSE IF Len(word) < MEDIUM_WORD_LENGTH THEN MEDIUM_WORD_CREDIT
    ELSE LONG_WORD_CREDIT

WordCredit(word) ==
    IF Len(word) <= SHORT_WORD_LENGTH THEN SHORT_WORD_CREDIT
    ELSE IF Len(word) <= MEDIUM_WORD_LENGTH THEN MEDIUM_WORD_CREDIT
    ELSE LONG_WORD_CREDIT

RECURSIVE SumWordCredits(_)
SumWordCredits(ws) ==
    IF ws = <<>> THEN 0 ELSE WordCredit(Head(ws)) + SumWordCredits(Tail(ws))

WordLengthHandler(t, credits) == credits + SumWordCredits(words(t))

third_characters_from_first(t) == {i \in DOMAIN t : i % 3 = 1}

\* text[2::3]: the characters at 0-indexed positions 2, 5, 8, ...
third_characters(t) == {i \in DOMAIN t : i % 3 = 0}

ThirdVowelsHandler(t, credits) ==
    credits
    + VOWEL_CREDIT * Cardinality({i \in third_characters(t) : t[i] \in VOWELS})

LengthPenaltyInclusive(t, credits) ==
    IF Len(t) >= MAX_LENGTH_WITHOUT_PENALTY THEN credits + LENGTH_PENALTY
    ELSE credits

LengthPenaltyHandler(t, credits) ==
    IF Len(t) > MAX_LENGTH_WITHOUT_PENALTY THEN credits + LENGTH_PENALTY
    ELSE credits

UniqueWordBonusClampless(t, credits) ==
    IF Len(words(t)) = Cardinality(Range(words(t)))
    THEN credits - UNIQUE_WORD_DISCOUNT
    ELSE credits

UniqueWordBonusCaseless(t, credits) ==
    LET ws == words(t)
        folded == [i \in DOMAIN ws |-> [j \in DOMAIN ws[i] |-> lower(ws[i][j])]]
        c == IF Len(ws) = Cardinality(Range(folded))
             THEN credits - UNIQUE_WORD_DISCOUNT
             ELSE credits
    IN  max(MINIMUM_CREDITS, c)

UniqueWordBonusHandler(t, credits) ==
    LET ws == words(t)
        c == IF Len(ws) = Cardinality(Range(ws))
             THEN credits - UNIQUE_WORD_DISCOUNT
             ELSE credits
    IN  max(MINIMUM_CREDITS, c)

\* s[::-1]
reversed(s) == [i \in DOMAIN s |-> s[Len(s) + 1 - i]]

is_palindrome_nonempty(t) ==
    LET kept == SelectSeq(t, isalnum)
        cleaned == [i \in DOMAIN kept |-> lower(kept[i])]
    IN  cleaned # <<>> /\ cleaned = reversed(cleaned)

is_palindrome_case_sensitive(t) ==
    LET cleaned == SelectSeq(t, isalnum)
    IN  cleaned = reversed(cleaned)

is_palindrome(t) ==
    LET kept == SelectSeq(t, isalnum)
        cleaned == [i \in DOMAIN kept |-> lower(kept[i])]
    IN  cleaned = reversed(cleaned)

PalindromeHandler(t, credits) ==
    IF is_palindrome(t) THEN credits * PALINDROME_MULTIPLIER ELSE credits

-----------------------------------------------------------------------------
(* The chain built by Calculator.__init__ and walked by Handler.handle *)

Handlers ==
    <<"base_cost", "character_count", "word_length", "third_vowels",
      "length_penalty", "unique_bonus", "palindrome">>

next_handler_swapped ==
    [h \in Range(Handlers) |->
        CASE h = "length_penalty" -> Some("palindrome")
          [] h = "palindrome" -> Some("unique_bonus")
          [] h = "unique_bonus" -> None
          [] OTHER ->
               LET i == CHOOSE k \in DOMAIN Handlers : Handlers[k] = h
               IN  Some(Handlers[i + 1])]

\* _next_handler of every handler after the set_next calls of __init__
next_handler ==
    [h \in Range(Handlers) |->
        LET i == CHOOSE k \in DOMAIN Handlers : Handlers[k] = h
        IN  IF i < Len(Handlers) THEN Some(Handlers[i + 1]) ELSE None]

\* Calculator.handler
handler == "base_cost"

process(h, t, credits) ==
    CASE h = "base_cost" -> BaseCostHandler(t, credits)
      [] h = "character_count" -> CharacterCountHandler(t, credits)
      [] h = "word_length" -> WordLengthHandler(t, credits)
      [] h = "third_vowels" -> ThirdVowelsHandler(t, credits)
      [] h = "length_penalty" -> LengthPenaltyHandler(t, credits)
      [] h = "unique_bonus" -> UniqueWordBonusHandler(t, credits)
      [] h = "palindrome" -> PalindromeHandler(t, credits)

\* Handler.handle: process, then hand the result to the next handler if any.
\* trace lists the process calls in order: the handler, the credits it
\* received and the credits it returned.
RECURSIVE handle(_, _, _, _)
handle(h, t, credits, trace) ==
    LET r == process(h, t, credits)
        tr == Append(trace, [handler |-> h, received |-> credits, returned |-> r])
    IN  IF chain[h] # None
        THEN handle(Get(chain[h]), t, r, tr)
        ELSE [credits |-> r, trace |-> tr]

calculate_ignoring_report(message, rep) ==
    LET c == handle(handler, message.text, 0, <<>>)
    IN  [credits |-> quantize(c.credits), trace |-> c.trace]

\* Calculator.calculate(message, report)
calculate(message, rep) ==
    IF rep # None
    THEN [credits |-> quantize(Get(rep).credit_cost), trace |-> <<>>]
    ELSE LET c == handle(handler, message.text, 0, <<>>)
         IN  [credits |-> quantize(c.credits), trace |-> c.trace]

-----------------------------------------------------------------------------
(* Domain data: Message and Report (src/models/domain.py) *)

ReportIds == {5392, 9999}

\* Message ids: enough of them for the longest list, in any order
MessageIds == 1..MaxMessages

ReportName(rid) == IF rid = 5392 THEN "Tenant Obligations Report" ELSE "Lease Report"

\* credit_cost is any Decimal: 25.50, 1.235 (a tie at the third decimal),
\* 15.754 and a negative cost
CreditCosts == {25500, 1235, 15754, -1005}

\* The cost the report with a given id has in the Report Source of a run
CostsOf(rid) == IF rid = 5392 THEN {1235} ELSE {-1005}

Reports ==
    {[id |-> rid, name |-> ReportName(rid), credit_cost |-> c] :
        rid \in ReportIds, c \in CreditCosts}

Timestamps ==
    {[year |-> 2024, month |-> 1, day |-> 1, hour |-> 10, minute |-> 5, second |-> 0],
     [year |-> 2024, month |-> 4, day |-> 29, hour |-> 2, minute |-> 8, second |-> 29]}

\* "Hi!" and "a a"
MessageTexts == {<<"H", "i", "!">>, <<"a", " ", "a">>}

\* The messages of the aggregation runs: the first text was sent at the first
\* timestamp and the second text at the second.
Messages ==
    {m \in [id : MessageIds, text : MessageTexts, timestamp : Timestamps,
            report_id : {None} \cup {Some(rid) : rid \in ReportIds}] :
        (m.text = <<"H", "i", "!">>) <=> (m.timestamp.month = 1)}

\* The lists the Message Source can return: at most MaxMessages messages with
\* pairwise distinct ids.
MessageLists ==
    {ms \in UNION {[1..n -> Messages] : n \in 0..MaxMessages} :
        \A i, j \in DOMAIN ms : i # j => ms[i].id # ms[j].id}

DigitChars == <<"0","1","2","3","4","5","6","7","8","9">>

Pad2(n) == <<DigitChars[((n \div 10) % 10) + 1], DigitChars[(n % 10) + 1]>>

\* datetime.isoformat() of a naive timestamp with no microseconds
isoformat(ts) ==
    Pad2(ts.year \div 100) \o Pad2(ts.year) \o <<"-">> \o Pad2(ts.month)
    \o <<"-">> \o Pad2(ts.day) \o <<"T">> \o Pad2(ts.hour) \o <<":">>
    \o Pad2(ts.minute) \o <<":">> \o Pad2(ts.second)

-----------------------------------------------------------------------------
(* The client (src/services/client.py) *)

NOT_FOUND == 404
INTERNAL_SERVER_ERROR == 500

\* What can go wrong in one Reports.get call besides the report not existing:
\* a failure status, a transport error without a response, a bad payload.
Faults == {"none", "status_500", "no_response", "invalid_format"}

APIError(rid, original) ==
    [type |-> "APIError", report_id |-> rid, original_error |-> original]

HTTPStatusError(status) ==
    [type |-> "HTTPStatusError", response |-> [status_code |-> status]]

\* an httpx transport error: it has no response attribute
ConnectError == [type |-> "ConnectError"]

ReportParsingError(rid) ==
    [type |-> "ReportParsingError", report_id |-> rid,
     message |-> "Invalid report data format"]

Return(v) == [kind |-> "return", value |-> v]

Raise(e) == [kind |-> "raise", error |-> e]

\* Reports.get(report_id), against the source's reports st
Reports_get(st, rid, fault) ==
    CASE fault = "status_500" ->
            Raise(APIError(rid, HTTPStatusError(INTERNAL_SERVER_ERROR)))
      [] fault = "no_response" -> Raise(APIError(rid, ConnectError))
      [] fault = "invalid_format" -> Raise(ReportParsingError(rid))
      [] fault = "none" ->
            IF st[rid] = None
            THEN Raise(APIError(rid, HTTPStatusError(NOT_FOUND)))
            ELSE Return(st[rid])

\* Messages.get_current_period() failures
MessageErrors ==
    {[type |-> "APIError", original_error |-> HTTPStatusError(INTERNAL_SERVER_ERROR)],
     [type |-> "MessageParsingError", message |-> "Invalid message data format"]}

-----------------------------------------------------------------------------
(* UsageService (src/services/usage.py) *)

AttributeError(context) == [type |-> "AttributeError", context |-> context]

fetch_report_swallow(outcome) ==
    IF outcome.kind = "return" THEN outcome ELSE Return(None)

fetch_report_strict(outcome) == outcome

\* fetch_report: the try/except around client.reports.get, given the call's
\* outcome.  Only an APIError is caught; reading .response of an original
\* error that has none raises AttributeError inside the except block.
fetch_report(outcome) ==
    IF outcome.kind = "return" THEN outcome
    ELSE IF outcome.error.type = "APIError"
    THEN LET original == outcome.error.original_error
         IN  IF "response" \notin DOMAIN original
             THEN Raise(AttributeError(outcome.error))
             ELSE IF original.response.status_code = NOT_FOUND
             THEN Return(None)
             ELSE outcome
    ELSE outcome

report_ids_unfiltered(ms) ==
    [i \in DOMAIN ms |->
        IF ms[i].report_id # None THEN Get(ms[i].report_id) ELSE 9999]

\* report_ids of get_current_period_usage: one element per message that has a
\* report id, in message order
report_ids(ms) ==
    LET referring == SelectSeq(ms, LAMBDA m : m.report_id # None)
    IN  [i \in DOMAIN referring |-> Get(referring[i].report_id)]

Done(t) == t.state = "done"

Failed(t) == Done(t) /\ Get(t.result).kind = "raise"

AnyDone(ts) == \E i \in DOMAIN ts : Done(ts[i])

AllDone(ts) == \A i \in DOMAIN ts : Done(ts[i])

gather_last_exception(out, ts) ==
    LET failed == {i \in DOMAIN ts : Failed(ts[i])}
    IN  IF failed # {}
        THEN Some(Raise(Get(ts[CHOOSE i \in failed :
                                  \A j \in failed : j <= i].result).error))
        ELSE IF AllDone(ts) THEN Some(Return(ts))
        ELSE None

\* asyncio.gather(..., return_exceptions=False), as each awaitable finishes:
\* the first exception raised by any of them is set on the outer future at
\* once (the other awaitables keep running and are not cancelled); with no
\* exception the outer future gets its result when the last one finishes.
\* out is the outer future before this completion, ts the tasks after it.
gather(out, ts) ==
    IF out # None THEN out
    ELSE LET failed == {i \in DOMAIN ts : Failed(ts[i])}
         IN  IF failed # {}
             THEN Some(Raise(Get(ts[CHOOSE i \in failed : TRUE].result).error))
             ELSE IF AllDone(ts) THEN Some(Return(ts))
             ELSE None

\* {report.id: report for report in reports if report is not None}
reports_dict(ts) ==
    LET found == {i \in DOMAIN ts : Done(ts[i]) /\ Get(ts[i].result).value # None}
        rep(i) == Get(Get(ts[i].result).value)
        keys == {rep(i).id : i \in found}
    IN  [k \in keys |->
            rep(CHOOSE i \in found :
                    /\ rep(i).id = k
                    /\ \A j \in found : rep(j).id = k => j <= i)]

\* report_map.get(message.report_id)
dict_get(d, key) ==
    IF key # None /\ Get(key) \in DOMAIN d THEN Some(d[Get(key)]) ELSE None

create_usage_entry_text_priced(message, rep) ==
    [message_id |-> message.id,
     timestamp |-> isoformat(message.timestamp),
     credits_used |-> quantize(calculate(message, None).credits),
     report_name |-> IF rep # None THEN Some(Get(rep).name) ELSE None]

create_usage_entry(message, rep) ==
    [message_id |-> message.id,
     timestamp |-> isoformat(message.timestamp),
     credits_used |-> quantize(calculate(message, rep).credits),
     report_name |-> IF rep # None THEN Some(Get(rep).name) ELSE None]

usage_entries_reversed(ms, d) ==
    [i \in DOMAIN ms |->
        create_usage_entry(ms[Len(ms) + 1 - i],
                           dict_get(d, ms[Len(ms) + 1 - i].report_id))]

usage_entries(ms, d) ==
    [i \in DOMAIN ms |-> create_usage_entry(ms[i], dict_get(d, ms[i].report_id))]

-----------------------------------------------------------------------------
(* The route (src/api/routes.py) *)

OK == 200
BAD_REQUEST == 400

HTTPException(status, cause) ==
    [kind |-> "HTTPException", status_code |-> status, cause |-> cause]

\* get_usage, given how usage_service.get_current_period_usage() ended: the
\* response is returned, MessageParsingError and APIError are turned into
\* HTTPExceptions, and any other exception leaves the route as it is.
get_usage(o) ==
    IF o.kind = "return"
    THEN [kind |-> "response", status_code |-> OK, usage |-> o.value]
    ELSE IF o.error.type = "MessageParsingError"
    THEN HTTPException(BAD_REQUEST, o.error)
    ELSE IF o.error.type = "APIError"
    THEN HTTPException(INTERNAL_SERVER_ERROR, o.error)
    ELSE [kind |-> "unhandled", error |-> o.error]

-----------------------------------------------------------------------------
(* get_current_period_usage as a state machine.  pc is "start" while the     *)
(* messages are awaited, "gather" while asyncio.gather is awaited, "done"    *)
(* once the UsageResponse is returned and "raised" once an exception left    *)
(* the coroutine.  Code between two awaits runs in one step.                 *)

\* A fetch_report coroutine: outcome is what client.reports.get did (line 43),
\* result what fetch_report made of it (lines 42-47).
NewTask(rid) ==
    [report_id |-> rid, state |-> "created", outcome |-> None, result |-> None]

Stores ==
    {st \in [ReportIds -> {None} \cup {Some(r) : r \in Reports}] :
        \A rid \in ReportIds :
            st[rid] # None =>
                Get(st[rid]).id = rid /\ Get(st[rid]).credit_cost \in CostsOf(rid)}

CalcVars == <<chain, text, report, result, returned, rule, credits_in>>

\* No calculate call and no rule call has been made on its own
CalcIdle ==
    /\ chain = next_handler
    /\ text = <<>>
    /\ report = None
    /\ result = None
    /\ returned = <<>>
    /\ rule = handler
    /\ credits_in = 0

Init ==
    /\ pc = "start"
    /\ messages = <<>>
    /\ store \in Stores
    /\ tasks = <<>>
    /\ outer = None
    /\ report_map = <<>>
    /\ usage = <<>>
    /\ raised = None
    /\ calls = [rid \in ReportIds |-> 0]
    /\ calc_calls = 0
    /\ source_error = None
    /\ response = None
    /\ CalcIdle


\* lines 98-103 with no report id at all: fetch_reports returns {} without
\* awaiting anything, and the entries are built at once (lines 105-110).
MessagesWithoutReports(ms) ==
    /\ report_ids(ms) = <<>>
    /\ messages' = ms
    /\ report_map' = <<>>
    /\ usage' = usage_entries(ms, <<>>)
    /\ calc_calls' = Len(ms)
    /\ pc' = "done"
    /\ response' = Some(get_usage(Return(usage_entries(ms, <<>>))))
    /\ UNCHANGED <<store, tasks, outer, raised, calls, source_error, CalcVars>>

\* lines 98-103 and 38-52: one fetch_report coroutine per element of
\* report_ids is handed to asyncio.gather, which is then awaited.
MessagesWithReports(ms) ==
    /\ report_ids(ms) # <<>>
    /\ messages' = ms
    /\ tasks' = [i \in DOMAIN report_ids(ms) |-> NewTask(report_ids(ms)[i])]
    /\ pc' = "gather"
    /\ UNCHANGED <<store, outer, report_map, usage, raised, calls, calc_calls,
                   source_error, response, CalcVars>>

MessagesFail_wrapped(e) ==
    /\ pc = "start"
    /\ source_error' = Some(e)
    /\ raised' = Some([type |-> "APIError",
                       original_error |-> HTTPStatusError(INTERNAL_SERVER_ERROR)])
    /\ pc' = "raised"
    /\ response' = Some(get_usage(Raise(Get(raised'))))
    /\ UNCHANGED <<messages, store, tasks, outer, report_map, usage, calls,
                   calc_calls, CalcVars>>

\* line 98 raising: nothing catches the error of the Message Source, it
\* leaves the coroutine and reaches the route
MessagesFail(e) ==
    /\ pc = "start"
    /\ source_error' = Some(e)
    /\ raised' = Some(e)
    /\ pc' = "raised"
    /\ response' = Some(get_usage(Raise(e)))
    /\ UNCHANGED <<messages, store, tasks, outer, report_map, usage, calls,
                   calc_calls, CalcVars>>

\* line 43: a fetch_report coroutine starts and calls client.reports.get
StartFetch(i) ==
    /\ tasks[i].state = "created"
    /\ tasks' = [tasks EXCEPT ![i].state = "awaiting"]
    /\ calls' = [calls EXCEPT ![tasks[i].report_id] = @ + 1]
    /\ UNCHANGED <<pc, messages, store, outer, report_map, usage, raised,
                   calc_calls, source_error, response, CalcVars>>

FinishFetch_shared_result(i, fault) ==
    /\ tasks[i].state = "awaiting"
    /\ LET o == Reports_get(store, tasks[i].report_id, fault)
           ts == [j \in DOMAIN tasks |->
                    IF j = i
                    THEN [tasks[j] EXCEPT !.state = "done", !.outcome = Some(o),
                                          !.result = Some(fetch_report(o))]
                    ELSE IF Done(tasks[j])
                    THEN [tasks[j] EXCEPT !.result = Some(fetch_report(o))]
                    ELSE tasks[j]]
       IN  /\ tasks' = ts
           /\ outer' = gather(outer, ts)
    /\ UNCHANGED <<pc, messages, store, report_map, usage, raised, calls,
                   calc_calls, source_error, response, CalcVars>>

FinishFetch_retrying(i, fault) ==
    /\ tasks[i].state = "awaiting"
    /\ LET o == Reports_get(store, tasks[i].report_id, fault)
           ts == IF fetch_report(o).kind = "raise"
                 THEN [tasks EXCEPT ![i].state = "created"]
                 ELSE [tasks EXCEPT ![i].state = "done", ![i].outcome = Some(o),
                                    ![i].result = Some(fetch_report(o))]
       IN  /\ tasks' = ts
           /\ outer' = gather(outer, ts)
    /\ UNCHANGED <<pc, messages, store, report_map, usage, raised, calls,
                   calc_calls, source_error, response, CalcVars>>

\* lines 43-47: the call ends and fetch_report returns or raises; gather
\* records it
FinishFetch(i, fault) ==
    /\ tasks[i].state = "awaiting"
    /\ LET o == Reports_get(store, tasks[i].report_id, fault)
           ts == [tasks EXCEPT ![i].state = "done", ![i].outcome = Some(o),
                               ![i].result = Some(fetch_report(o))]
       IN  /\ tasks' = ts
           /\ outer' = gather(outer, ts)
    /\ UNCHANGED <<pc, messages, store, report_map, usage, raised, calls,
                   calc_calls, source_error, response, CalcVars>>

\* lines 50-54 and 105-110: gather returned the reports; the dict and then
\* every usage entry are built and the response is returned
GatherReturns ==
    /\ pc = "gather"
    /\ outer # None
    /\ Get(outer).kind = "return"
    /\ report_map' = reports_dict(Get(outer).value)
    /\ usage' = usage_entries(messages, reports_dict(Get(outer).value))
    /\ calc_calls' = Len(messages)
    /\ pc' = "done"
    /\ response' = Some(get_usage(Return(usage')))
    /\ UNCHANGED <<messages, store, tasks, outer, raised, calls, source_error,
                   CalcVars>>

\* lines 50-52 and 103: gather raised; the exception leaves fetch_reports
\* and get_current_period_usage
GatherRaises ==
    /\ pc = "gather"
    /\ outer # None
    /\ Get(outer).kind = "raise"
    /\ raised' = Some(Get(outer).error)
    /\ pc' = "raised"
    /\ response' = Some(get_usage(Raise(Get(outer).error)))
    /\ UNCHANGED <<messages, store, tasks, outer, report_map, usage, calls,
                   calc_calls, source_error, CalcVars>>

Next ==
    \/ pc = "start" /\ \E ms \in MessageLists : MessagesWithoutReports(ms)
    \/ pc = "start" /\ \E ms \in MessageLists : MessagesWithReports(ms)
    \/ \E e \in MessageErrors : MessagesFail(e)
    \/ \E i \in DOMAIN tasks : StartFetch(i)
    \/ \E i \in DOMAIN tasks, fault \in Faults : FinishFetch(i, fault)
    \/ GatherReturns
    \/ GatherRaises

Spec == Init /\ [][Next]_vars

\* The same run when the event loop keeps running what is ready and every
\* awaited call of the Message Source and of the Report Source completes: a
\* step that stays possible is eventually taken.  The message lists are the
\* ones whose messages carry the ids 1, 2, ... in order and the first text,
\* with every combination of report references; the Report Source has the
\* report 5392 and no report 9999.
FairMessageLists ==
    {ms \in MessageLists :
        \A k \in DOMAIN ms : ms[k].id = k /\ ms[k].text = <<"H", "i", "!">>}

FairInit ==
    /\ Init
    /\ store = [rid \in ReportIds |->
                  IF rid = 5392
                  THEN Some([id |-> rid, name |-> ReportName(rid),
                             credit_cost |-> 1235])
                  ELSE None]

FairNext ==
    \/ pc = "start" /\ \E ms \in FairMessageLists : MessagesWithoutReports(ms)
    \/ pc = "start" /\ \E ms \in FairMessageLists : MessagesWithReports(ms)
    \/ \E e \in MessageErrors : MessagesFail(e)
    \/ \E i \in DOMAIN tasks : StartFetch(i)
    \/ \E i \in DOMAIN tasks, fault \in Faults : FinishFetch(i, fault)
    \/ GatherReturns
    \/ GatherRaises

FairSpec == FairInit /\ [][FairNext]_vars /\ WF_vars(FairNext)

-----------------------------------------------------------------------------
(* The same run against a Report Source that answers a request with the one  *)
(* report it serves, whatever the id requested: Reports.get validates the    *)
(* body against Report and does not compare its id with report_id.  The mock *)
(* of the routes tests is such a source.                                     *)

\* Per requested id: NotFound, or the report whose id is 5392
SingleReportStores ==
    [ReportIds -> {None, Some([id |-> 5392, name |-> ReportName(5392),
                               credit_cost |-> 1235])}]

SingleReportInit ==
    /\ pc = "start"
    /\ messages = <<>>
    /\ store \in SingleReportStores
    /\ tasks = <<>>
    /\ outer = None
    /\ report_map = <<>>
    /\ usage = <<>>
    /\ raised = None
    /\ calls = [rid \in ReportIds |-> 0]
    /\ calc_calls = 0
    /\ source_error = None
    /\ response = None
    /\ CalcIdle

SingleReportSpec == SingleReportInit /\ [][Next]_vars

-----------------------------------------------------------------------------
(* Calculator.calculate on its own: every text of at most MaxLen characters  *)
(* over Alphabet, with and without a report.                                 *)

Alphabet == {"a", "b", "A", "e", "1", " ", "!"}

Texts == UNION {[1..n -> Alphabet] : n \in 0..MaxLen}

\* "What rental amount is specified?"
TextRental ==
    <<"W","h","a","t"," ","r","e","n","t","a","l"," ","a","m","o","u","n","t",
      " ","i","s"," ","s","p","e","c","i","f","i","e","d","?">>

\* "A man a plan a canal Panama"
TextPanama ==
    <<"A"," ","m","a","n"," ","a"," ","p","l","a","n"," ","a"," ","c","a","n",
      "a","l"," ","P","a","n","a","m","a">>

\* "x" * 101
TextLong == [i \in 1..(MAX_LENGTH_WITHOUT_PENALTY + 1) |-> "x"]

\* "The quick brown fox jumps over lazy dog"
TextFox ==
    <<"T","h","e"," ","q","u","i","c","k"," ","b","r","o","w","n"," ","f","o",
      "x"," ","j","u","m","p","s"," ","o","v","e","r"," ","l","a","z","y"," ",
      "d","o","g">>

\* The texts of the end-to-end tests
LiteralTexts == {TextRental, TextPanama, TextLong, TextFox}

\* No aggregation run is under way
RunIdle ==
    /\ pc = "start"
    /\ messages = <<>>
    /\ store = [rid \in ReportIds |-> None]
    /\ tasks = <<>>
    /\ outer = None
    /\ report_map = <<>>
    /\ usage = <<>>
    /\ raised = None
    /\ calls = [rid \in ReportIds |-> 0]
    /\ calc_calls = 0
    /\ source_error = None
    /\ response = None

RunVars ==
    <<pc, messages, store, tasks, outer, report_map, usage, raised, calls,
      calc_calls, source_error, response>>

CalcInit ==
    /\ text \in Texts \cup LiteralTexts
    /\ report \in {None} \cup {Some(r) : r \in Reports}
    /\ result = None
    /\ chain = next_handler
    /\ returned = <<>>
    /\ rule = handler
    /\ credits_in = 0
    /\ RunIdle

Calculate ==
    /\ result = None
    /\ result' = Some(calculate([text |-> text], report))
    /\ UNCHANGED <<RunVars, chain, text, report, returned, rule, credits_in>>

CalcNext == Calculate

CalcSpec == CalcInit /\ [][CalcNext]_vars

-----------------------------------------------------------------------------
(* One Calculator called again and again (src/utils/calculator.py) *)

\* The arguments of the calls: a few texts, each with and without a report
PureInputs ==
    [text : {<<>>, <<"a", " ", "a">>, <<"a", "b">>},
     report : {None, Some([id |-> 5392, name |-> ReportName(5392),
                           credit_cost |-> 1235])}]

PureInit ==
    /\ chain = next_handler
    /\ text = <<>>
    /\ report = None
    /\ result = None
    /\ returned = [inp \in PureInputs |-> <<>>]
    /\ rule = handler
    /\ credits_in = 0
    /\ RunIdle

PureCall_relinking(inp) ==
    /\ Len(returned[inp]) < MaxCalls
    /\ text' = inp.text
    /\ report' = inp.report
    /\ result' = Some(calculate([text |-> inp.text], inp.report))
    /\ returned' = [returned EXCEPT ![inp] = Append(@, Get(result').credits)]
    /\ chain' = [chain EXCEPT !["unique_bonus"] = None]
    /\ UNCHANGED <<RunVars, rule, credits_in>>

\* calculate(message, report) on the same Calculator: the call reads the
\* chain and assigns no attribute of the Calculator or of a handler
PureCall(inp) ==
    /\ Len(returned[inp]) < MaxCalls
    /\ text' = inp.text
    /\ report' = inp.report
    /\ result' = Some(calculate([text |-> inp.text], inp.report))
    /\ returned' = [returned EXCEPT ![inp] = Append(@, Get(result').credits)]
    /\ UNCHANGED <<RunVars, chain, rule, credits_in>>

PureNext == \E inp \in PureInputs : PureCall(inp)

PureSpec == PureInit /\ [][PureNext]_vars

-----------------------------------------------------------------------------
(* One handler's process called on its own (src/utils/calculator.py) *)

\* Running totals a handler can be handed: 0.00, 0.50, 2.65 and 3.50
RunningTotals == {0, 500, 2650, 3500}

\* "x" * 100: the longest text without penalty
TextAtLimit == [i \in 1..MAX_LENGTH_WITHOUT_PENALTY |-> "x"]

\* "COVID-19 19 hi hi": a mixed token, a numeric token and a repeated token
TextMixed ==
    <<"C","O","V","I","D","-","1","9"," ","1","9"," ","h","i"," ","h","i">>

RuleTexts == {TextAtLimit, TextMixed}

RuleInit ==
    /\ chain = next_handler
    /\ text \in Texts \cup LiteralTexts \cup RuleTexts
    /\ report = None
    /\ result = None
    /\ returned = <<>>
    /\ rule \in Range(Handlers)
    /\ credits_in \in RunningTotals
    /\ RunIdle

\* rule.process(message, credits_in)
ApplyRule ==
    /\ result = None
    /\ result' = Some([credits |-> process(rule, text, credits_in),
                       trace |-> <<>>])
    /\ UNCHANGED <<RunVars, chain, text, report, returned, rule, credits_in>>

RuleNext == ApplyRule

RuleSpec == RuleInit /\ [][RuleNext]_vars

-----------------------------------------------------------------------------
(* Properties of the aggregation (checked under Spec)                        *)

\* The Report Source answered this resolution with NotFound (a 404 APIError)
SourceNotFound(t) ==
    /\ Done(t)
    /\ Get(t.outcome)
         = Raise(APIError(t.report_id, HTTPStatusError(NOT_FOUND)))

\* The report resolutions of the run that the Report Source failed with an
\* error other than NotFound
FatalTasks ==
    {i \in DOMAIN tasks :
        /\ Done(tasks[i])
        /\ Get(tasks[i].outcome).kind = "raise"
        /\ ~SourceNotFound(tasks[i])}

\* The Report Source answered this resolution with a report
SourceReturned(t) == Done(t) /\ Get(t.outcome).kind = "return"

IsNotFoundError(e) ==
    /\ e.type = "APIError"
    /\ "response" \in DOMAIN e.original_error
    /\ e.original_error.response.status_code = NOT_FOUND

\* The credits the seven rules give the two message texts, worked by hand:
\* "Hi!": 1.00 + 0.15 + 0.10 - 2.00, floored to 1.00, not a palindrome;
\* "a a": 1.00 + 0.15 + 0.20 + 0.30 = 1.65, words repeat, palindrome: 3.30.
RuleChainCredits(t) == IF t = <<"H", "i", "!">> THEN 1000 ELSE 3300

\* The ISO-8601 text of the two timestamps
IsoText(ts) ==
    IF ts.month = 1
    THEN <<"2","0","2","4","-","0","1","-","0","1","T","1","0",":","0","5",":","0","0">>
    ELSE <<"2","0","2","4","-","0","4","-","2","9","T","0","2",":","0","8",":","2","9">>

\* c is x rounded to 2 decimals, round-half-up: a multiple of 0.01 at most
\* 0.005 away from x, the farther from zero of the two when x is a tie.
IsRoundHalfUp(c, x) ==
    /\ c % 10 = 0
    /\ Abs(c - x) <= 5
    /\ Abs(c - x) = 5 => Abs(c) > Abs(x)

\* C1: when the run returns, the usage list has exactly one entry per message
\* and entry i carries the id of message i; and a run whose report resolutions
\* contain no fatal failure does not raise.
C1_OneEntryPerMessageInOrder ==
    /\ pc = "done" =>
          /\ Len(usage) = Len(messages)
          /\ \A i \in DOMAIN messages : usage[i].message_id = messages[i].id
    /\ (pc = "raised" /\ tasks # <<>>) => FatalTasks # {}
    /\ (tasks # <<>> /\ AllDone(tasks) /\ FatalTasks = {}) =>
          outer # None /\ Get(outer).kind = "return"

\* a returned list of two messages whose ids are not in position order, one
\* report resolved and one not found
C1_Witness ==
    /\ pc = "done"
    /\ Len(usage) = 2
    /\ messages[1].id = 2
    /\ \E i \in DOMAIN tasks : SourceNotFound(tasks[i])
    /\ \E i \in DOMAIN tasks : SourceReturned(tasks[i])

\* C2: once a report resolution has failed with an error that is not NotFound,
\* the join carries an exception, the run never returns a usage list and no
\* entry is ever built; in particular the failing id gets no rule-chain entry.
C2_FatalFailureNoUsageList ==
    FatalTasks # {} =>
        /\ outer # None /\ Get(outer).kind = "raise"
        /\ pc \in {"gather", "raised"}
        /\ usage = <<>>
        /\ calc_calls = 0
        /\ pc = "raised" => raised # None

\* the run raised on a failure status while a sibling had resolved its report
C2_Witness ==
    /\ pc = "raised"
    /\ \E i \in FatalTasks :
          Get(tasks[i].outcome)
            = Raise(APIError(tasks[i].report_id,
                             HTTPStatusError(INTERNAL_SERVER_ERROR)))
    /\ \E i \in DOMAIN tasks : SourceReturned(tasks[i])

\* C3: a NotFound answer of the Report Source is no failure of the resolution;
\* when the run returns, an id answered NotFound is absent from the resolved
\* mapping and every message referencing it has no report name and the
\* rule-chain credits of its text; the NotFound error is never what the run
\* raises.
C3_NotFoundTolerated ==
    /\ \A i \in DOMAIN tasks :
          SourceNotFound(tasks[i]) => Get(tasks[i].result) = Return(None)
    /\ raised # None => ~IsNotFoundError(Get(raised))
    /\ pc = "done" =>
          \A i \in DOMAIN tasks :
              SourceNotFound(tasks[i]) =>
                  /\ tasks[i].report_id \notin DOMAIN report_map
                  /\ \A k \in DOMAIN messages :
                        messages[k].report_id = Some(tasks[i].report_id) =>
                            /\ usage[k].report_name = None
                            /\ usage[k].credits_used
                                 = RuleChainCredits(messages[k].text)

\* a returned list where one id was not found and the other was resolved
C3_Witness ==
    /\ pc = "done"
    /\ \E i, j \in DOMAIN tasks :
          /\ SourceNotFound(tasks[i])
          /\ SourceReturned(tasks[j])
          /\ tasks[j].report_id \in DOMAIN report_map

\* C4: no usage entry is built and the calculator is not called before every
\* report resolution of the run has ended with a report or a NotFound.
C4_NoEntryBeforeJoin ==
    (usage # <<>> \/ calc_calls > 0) =>
        \A i \in DOMAIN tasks :
            /\ tasks[i].state = "done"
            /\ SourceReturned(tasks[i]) \/ SourceNotFound(tasks[i])

\* entries built after two resolutions, one of them a NotFound
C4_Witness ==
    /\ calc_calls = 2
    /\ Len(tasks) = 2
    /\ \E i \in DOMAIN tasks : SourceNotFound(tasks[i])

C6_OneCallPerDistinctId ==
    pc = "done" =>
        \A rid \in ReportIds :
            calls[rid] = IF \E k \in DOMAIN messages :
                                messages[k].report_id = Some(rid)
                         THEN 1
                         ELSE 0

\* C7 as stated: what the run raises after a report resolution failed is the
\* very error the Report Source raised for one of the resolutions.
C7_SurfacedUnchanged ==
    (pc = "raised" /\ tasks # <<>>) =>
        \E i \in DOMAIN tasks :
            /\ Done(tasks[i])
            /\ Get(tasks[i].outcome).kind = "raise"
            /\ Get(raised) = Get(tasks[i].outcome).error

\* C8: every entry of a returned list carries its message's id and the
\* ISO-8601 text of its timestamp; it carries the report's name and the
\* report's rounded cost exactly when the message's report id is a key of the
\* resolved mapping, and otherwise no name and the rule-chain credits.
C8_EntryPricedByResolvedReport ==
    pc = "done" =>
        \A k \in DOMAIN messages :
            LET m == messages[k]
                resolved == /\ m.report_id # None
                            /\ Get(m.report_id) \in DOMAIN report_map
            IN  /\ usage[k].message_id = m.id
                /\ usage[k].timestamp = IsoText(m.timestamp)
                /\ resolved =>
                      /\ usage[k].report_name
                           = Some(report_map[Get(m.report_id)].name)
                      /\ IsRoundHalfUp(usage[k].credits_used,
                             report_map[Get(m.report_id)].credit_cost)
                /\ ~resolved =>
                      /\ usage[k].report_name = None
                      /\ usage[k].credits_used = RuleChainCredits(m.text)

\* a returned list with one entry priced by a report and one by the rules
C8_Witness ==
    /\ pc = "done"
    /\ \E k \in DOMAIN usage : usage[k].report_name # None
    /\ \E k \in DOMAIN usage :
          usage[k].report_name = None /\ messages[k].report_id # None

-----------------------------------------------------------------------------
(* Properties of Calculator.calculate (checked under CalcSpec)               *)

C10_AtLeastOneCredit ==
    (result # None /\ report = None) => Get(result).credits >= MINIMUM_CREDITS

\* a text whose total fell below the floor: "ab" is 1.00 + 0.10 + 0.10 - 2.00
C10_Witness ==
    /\ result # None
    /\ report = None
    /\ text = <<"a", "b">>
    /\ Get(result).credits = 1000

-----------------------------------------------------------------------------
\* C11: in every usage list the aggregator produces, credits_used of every
\* entry is never negative, whether the entry was priced by the rule chain or
\* by the report override.  Report.credit_cost is any Decimal the Report
\* Source sends, and the override copies it: this statement is violated.
C11_NonNegativeCredits ==
    pc = "done" => \A k \in DOMAIN usage : usage[k].credits_used >= 0

-----------------------------------------------------------------------------
\* C12: calculate on the empty text, with no report, returns 2.00: the text
\* has 0 tokens and 0 distinct tokens, so the uniqueness rule subtracts 2.00
\* from the 1.00 it receives (-1.00) and returns the floor 1.00, and the
\* palindrome rule, for which the empty string is a palindrome, returns the
\* double of the 1.00 it receives.
C12_EmptyTextFloorThenDouble ==
    (text = <<>> /\ report = None /\ result # None) =>
        LET tr == Get(result).trace
        IN  /\ Get(result).credits = 2000
            /\ words(text) = <<>>
            /\ tr[6].handler = "unique_bonus"
            /\ tr[6].received = 1000
            /\ tr[6].received - UNIQUE_WORD_DISCOUNT = -1000
            /\ tr[6].returned = 1000
            /\ tr[7].handler = "palindrome"
            /\ tr[7].received = 1000
            /\ tr[7].returned = 2000

C12_Witness ==
    /\ text = <<>>
    /\ report = None
    /\ result # None
    /\ Len(Get(result).trace) = Len(Handlers)
    /\ Get(result).credits = 2 * MINIMUM_CREDITS

-----------------------------------------------------------------------------
-----------------------------------------------------------------------------
\* C14: when no message of the run references a report (the empty message
\* list included), the run that returned has issued no report-resolution
\* call, has started no resolution and has used an empty resolved mapping;
\* and for the empty message list the usage list is empty and the calculator
\* has not been called.
C14_NoReferenceNoResolution ==
    (pc = "done" /\ \A k \in DOMAIN messages : messages[k].report_id = None) =>
        /\ \A rid \in ReportIds : calls[rid] = 0
        /\ tasks = <<>>
        /\ report_map = <<>>
        /\ Len(usage) = Len(messages)
        /\ messages = <<>> => (usage = <<>> /\ calc_calls = 0)

C14_Witness ==
    /\ pc = "done"
    /\ messages = <<>>
    /\ usage = <<>>
    /\ response = Some(get_usage(Return(<<>>)))

\* C15: if the Message Source fails with an APIError or a
\* MessageParsingError, get_current_period_usage raises that same error,
\* unchanged, and the run has issued no report-resolution call and built no
\* usage entry.
C15_MessageSourceFailureIsFatal ==
    source_error # None =>
        /\ Get(source_error) \in MessageErrors
        /\ pc = "raised"
        /\ raised = source_error
        /\ \A rid \in ReportIds : calls[rid] = 0
        /\ tasks = <<>>
        /\ usage = <<>>
        /\ calc_calls = 0

C15_Witness ==
    /\ pc = "raised"
    /\ source_error # None
    /\ Get(source_error).type = "MessageParsingError"
    /\ raised = source_error
    /\ tasks = <<>>

\* C16: a usage request that has ended ended in one of three outcomes: the
\* usage list with status 200, a parse error mapped by get_usage to 400, or
\* an APIError mapped by get_usage to 500.  A ReportParsingError of the
\* Report Source is caught by no except clause of get_usage: this statement
\* is violated.
C16_ThreeOutcomes ==
    response # None =>
        LET r == Get(response)
        IN  \/ /\ r.kind = "response"
               /\ r.status_code = OK
               /\ r.usage = usage
            \/ /\ r.kind = "HTTPException"
               /\ r.status_code = BAD_REQUEST
               /\ r.cause.type \in {"MessageParsingError", "ReportParsingError"}
            \/ /\ r.kind = "HTTPException"
               /\ r.status_code = INTERNAL_SERVER_ERROR
               /\ r.cause.type = "APIError"

-----------------------------------------------------------------------------
C18_LinearFoldInOrder ==
    (report = None /\ result # None) =>
        LET tr == Get(result).trace
        IN  /\ [i \in DOMAIN tr |-> tr[i].handler]
                 = <<"base_cost", "character_count", "word_length",
                     "third_vowels", "length_penalty", "unique_bonus",
                     "palindrome">>
            /\ tr[1].received = 0
            /\ \A i \in 2..Len(tr) : tr[i].received = tr[i - 1].returned
            /\ \A i \in DOMAIN tr :
                  tr[i].returned = process(tr[i].handler, text, tr[i].received)
            /\ IsRoundHalfUp(Get(result).credits, tr[Len(tr)].returned)

C18_Witness ==
    /\ text = TextPanama
    /\ report = None
    /\ result # None
    /\ LET tr == Get(result).trace
       IN  /\ Len(tr) = 7
           /\ tr[1].returned = BASE_COST
           /\ tr[6].returned = tr[6].received
           /\ tr[7].returned = 2 * tr[6].returned
           /\ Get(result).credits = tr[7].returned

-----------------------------------------------------------------------------
(* Properties of single rules (checked under RuleSpec)                       *)

Letters == Range(LowerLetters) \cup Range(UpperLetters)

\* The whitespace-separated tokens of t, as <<first, last>> positions: the
\* maximal runs of characters that are not whitespace
TokenSpans(t) ==
    {sp \in (DOMAIN t) \X (DOMAIN t) :
        /\ sp[1] <= sp[2]
        /\ \A i \in sp[1]..sp[2] : t[i] \notin Whitespace
        /\ sp[1] = 1 \/ t[sp[1] - 1] \in Whitespace
        /\ sp[2] = Len(t) \/ t[sp[2] + 1] \in Whitespace}

\* The tokens that contain at least one alphabetic character
AlphabeticSpans(t) ==
    {sp \in TokenSpans(t) :
        \E i \in sp[1]..sp[2] : t[i] \in Letters}

\* As many distinct tokens as tokens, compared character by character
AllTokensDistinct(t) ==
    Cardinality(AlphabeticSpans(t))
      = Cardinality({SubSeq(t, sp[1], sp[2]) : sp \in AlphabeticSpans(t)})

\* The positions of the alphanumeric characters of t
AlnumPositions(t) ==
    {i \in DOMAIN t : t[i] \in Letters \cup Digits}

\* The same character, or the two cases of one letter
SameIgnoringCase(a, b) ==
    \/ a = b
    \/ \E i \in DOMAIN LowerLetters : {a, b} = {LowerLetters[i], UpperLetters[i]}

\* The text reads the same in both directions once every character that is
\* not alphanumeric is dropped and case is ignored: the k-th alphanumeric
\* character from the start equals the k-th from the end
ReadsTheSameBothWays(t) ==
    LET pos == AlnumPositions(t)
        rank(i) == Cardinality({j \in pos : j <= i})
    IN  \A i, j \in pos :
            rank(i) + rank(j) = Cardinality(pos) + 1 => SameIgnoringCase(t[i], t[j])

\* C19: the uniqueness rule subtracts 2.00 exactly when the whitespace-
\* separated tokens with at least one alphabetic character are pairwise
\* distinct, compared case-sensitively (no such token at all qualifies), and
\* then returns at least 1.00 whether or not the bonus was taken.
C19_UniquenessBonusThenFloor ==
    (rule = "unique_bonus" /\ result # None) =>
        LET after == IF AllTokensDistinct(text)
                     THEN credits_in - 2000
                     ELSE credits_in
        IN  Get(result).credits = IF after < 1000 THEN 1000 ELSE after

C19_Witness ==
    /\ rule = "unique_bonus"
    /\ text = <<"a", " ", "A">>
    /\ credits_in = 3500
    /\ result # None
    /\ Get(result).credits = 1500

\* C20: the palindrome rule returns twice the running total exactly when the
\* text, without its non-alphanumeric characters and lower-cased, equals its
\* reverse, which includes every text with no alphanumeric character; and
\* otherwise it returns the running total unchanged.
C20_PalindromeDoubles ==
    (rule = "palindrome" /\ result # None) =>
        /\ AlnumPositions(text) = {} => Get(result).credits = 2 * credits_in
        /\ Get(result).credits
             = IF ReadsTheSameBothWays(text) THEN 2 * credits_in ELSE credits_in

C20_Witness ==
    /\ rule = "palindrome"
    /\ text = <<"!", " ", "!">>
    /\ credits_in = 2650
    /\ result # None
    /\ Get(result).credits = 5300

-----------------------------------------------------------------------------
\* The tokens with an alphabetic character whose full length is in lengths
SpansOfLength(t, lengths) ==
    {sp \in AlphabeticSpans(t) : sp[2] - sp[1] + 1 \in lengths}

\* C21: the word-length rule adds, for every whitespace-separated token that
\* contains an alphabetic character, 0.10 if the token has at most 3
\* characters, 0.20 if it has 4 to 7 and 0.30 if it has more than 7; a token
\* without an alphabetic character adds nothing, a mixed token counts at its
\* full length and every occurrence of a repeated token counts.
C21_WordLengthCost ==
    (rule = "word_length" /\ result # None) =>
        Get(result).credits
          = credits_in
            + 100 * Cardinality(SpansOfLength(text, 1..3))
            + 200 * Cardinality(SpansOfLength(text, 4..7))
            + 300 * Cardinality(SpansOfLength(text, 8..Len(text)))

C21_Witness ==
    /\ rule = "word_length"
    /\ text = TextMixed
    /\ credits_in = 0
    /\ result # None
    /\ Cardinality(TokenSpans(text)) = 4
    /\ Get(result).credits = 500

\* The 0-indexed positions 2, 5, 8, ... of t, as indexes of the sequence
EveryThirdFromIndexTwo(t) == {i \in DOMAIN t : \E n \in 0..Len(t) : i - 1 = 2 + 3 * n}

\* C22: the third-position vowel rule adds 0.30 for every character at a
\* 0-indexed position 2, 5, 8, ... of the raw text that is one of a, e, i, o,
\* u in either case, and nothing else: vowels at other positions and texts
\* shorter than 3 characters add nothing.
C22_ThirdPositionVowels ==
    (rule = "third_vowels" /\ result # None) =>
        /\ Get(result).credits
             = credits_in
               + 300 * Cardinality({i \in EveryThirdFromIndexTwo(text) :
                      text[i] \in {"a", "e", "i", "o", "u", "A", "E", "I", "O", "U"}})
        /\ Len(text) < 3 => Get(result).credits = credits_in

C22_Witness ==
    /\ rule = "third_vowels"
    /\ text = <<"a", "e", "A">>
    /\ credits_in = 500
    /\ result # None
    /\ Get(result).credits = 800

\* C23: the length penalty adds 5.00 exactly when the raw text has more than
\* 100 characters; a text of 100 characters or fewer leaves the running total
\* unchanged.
C23_LengthPenalty ==
    (rule = "length_penalty" /\ result # None) =>
        Get(result).credits = IF Len(text) > 100 THEN credits_in + 5000
                              ELSE credits_in

C23_Witness ==
    /\ rule = "length_penalty"
    /\ text = TextAtLimit
    /\ Len(text) = 100
    /\ credits_in = 2650
    /\ result # None
    /\ Get(result).credits = 2650

-----------------------------------------------------------------------------
\* What the resolution of rid gives when the Report Source does not fail:
\* the report the source has for rid, or nothing when it has none
ResolutionOf(rid) == IF store[rid] = None THEN Return(None) ELSE Return(store[rid])

\* The entry of message m when the reports of the source are fixed
EntryOf(m) ==
    LET rep == IF m.report_id = None THEN None ELSE store[Get(m.report_id)]
    IN  [message_id |-> m.id,
         timestamp |-> IsoText(m.timestamp),
         credits_used |-> IF rep = None THEN RuleChainCredits(m.text)
                          ELSE quantize(Get(rep).credit_cost),
         report_name |-> IF rep = None THEN None ELSE Some(Get(rep).name)]

\* C24: for a fixed message list and fixed reports of the source, in every
\* interleaving and completion order of the resolutions, a resolution that
\* did not fail fatally has the result its own report id determines, whatever
\* its siblings did or have yet to do, and the usage list the run returns is
\* the one the messages and the reports determine.
C24_OrderIndependent ==
    /\ \A i \in DOMAIN tasks :
          (Done(tasks[i]) /\ i \notin FatalTasks) =>
              tasks[i].result = Some(ResolutionOf(tasks[i].report_id))
    /\ pc = "done" =>
          usage = [k \in DOMAIN messages |-> EntryOf(messages[k])]

\* The second resolution completed before the first one, with another result
C24_Witness ==
    /\ pc = "gather"
    /\ Len(tasks) >= 2
    /\ Done(tasks[2])
    /\ ~Done(tasks[1])
    /\ FatalTasks = {}
    /\ tasks[1].report_id # tasks[2].report_id
    /\ store[tasks[1].report_id] # None
    /\ tasks[2].result = Some(Return(None))

-----------------------------------------------------------------------------
\* The report the Report Source returned to resolution i
ReturnedTo(i) == Get(Get(tasks[i].outcome).value)

\* The resolutions of the run that returned a report
Resolved == {i \in DOMAIN tasks : SourceReturned(tasks[i])}

\* C25: the keys of the mapping returned by fetch_reports are exactly the
\* requested report ids whose resolution returned a report, each key maps to
\* the report returned for that id, every message whose report id was
\* resolved is priced by that report, and the messages sharing one resolved
\* report id get the same report name and credits.  The mapping is keyed by
\* the id the returned report carries, which the code never compares with the
\* requested id: this statement is violated.
C25_KeyedByRequestedId ==
    pc = "done" =>
        /\ DOMAIN report_map = {tasks[i].report_id : i \in Resolved}
        /\ \A i \in Resolved :
              /\ tasks[i].report_id \in DOMAIN report_map
              /\ report_map[tasks[i].report_id] = ReturnedTo(i)
        /\ \A k \in DOMAIN messages, i \in Resolved :
              messages[k].report_id = Some(tasks[i].report_id) =>
                  /\ usage[k].report_name = Some(ReturnedTo(i).name)
                  /\ usage[k].credits_used = quantize(ReturnedTo(i).credit_cost)
        /\ \A k, l \in DOMAIN messages :
              (/\ messages[k].report_id # None
               /\ messages[k].report_id = messages[l].report_id) =>
                  /\ usage[k].report_name = usage[l].report_name
                  /\ (usage[k].report_name # None =>
                         usage[k].credits_used = usage[l].credits_used)

-----------------------------------------------------------------------------
C27_FloorOnlyAfterBonus ==
    (report = None /\ result # None) =>
        LET tr == Get(result).trace
        IN  /\ tr[1].returned = 1000
            /\ \A i \in 2..5 : tr[i].returned >= tr[i].received
            /\ tr[6].handler = "unique_bonus"
            /\ tr[6].received >= 1000
            /\ ~AllTokensDistinct(text) => tr[6].returned = tr[6].received
            /\ tr[6].returned # tr[6].received =>
                  /\ AllTokensDistinct(text)
                  /\ tr[6].returned >= tr[6].received - 2000
            /\ tr[7].handler = "palindrome"
            /\ tr[7].received >= 1000

C27_Witness ==
    /\ text = <<"b">>
    /\ report = None
    /\ result # None
    /\ LET tr == Get(result).trace
       IN  /\ tr[6].received = 1150
           /\ tr[6].returned = 1000
           /\ tr[7].returned = 2000

-----------------------------------------------------------------------------
\* The resolutions of the run that ask for report rid
TasksFor(rid) == {i \in DOMAIN tasks : tasks[i].report_id = rid}

\* C28: when the Message Source call and every report-resolution call
\* complete, every aggregation run eventually ends, by returning a usage list
\* or by raising an error; and no resolution is retried: a resolution calls
\* the Report Source at most once and, once it has its outcome, never runs
\* again.
C28_RunEnds ==
    /\ <>(pc \in {"done", "raised"})
    /\ [](\A rid \in ReportIds : calls[rid] <= Cardinality(TasksFor(rid)))
    /\ [][\A i \in DOMAIN tasks : Done(tasks[i]) => tasks'[i] = tasks[i]]_vars

C28_Witness ==
    /\ pc = "done"
    /\ response # None
    /\ Len(tasks) >= 2
    /\ tasks[1].report_id = tasks[2].report_id
    /\ AllDone(tasks)
    /\ \A rid \in ReportIds : calls[rid] = Cardinality(TasksFor(rid))

====
